---- MODULE Spec2Model ----
(***************************************************************************)
(* Device-tree helpers of core/kernel/dt.c: driver matching                *)
(* (dt_find_compatible_driver), status resolution (_fdt_get_status),       *)
(* register window decoding (_fdt_reg_base_address, _fdt_reg_size) and     *)
(* the mapping orchestration (dt_map_dev).                                 *)
(*                                                                         *)
(* Encodings.  A 32-bit cell of the blob is its four bytes in memory       *)
(* order <<b0,b1,b2,b3>>.  A uint32_t value is the pair <<hi16, lo16>> of  *)
(* its 16-bit halves.  A paddr_t / ssize_t / size_t value is the record    *)
(* [hi |-> uint32, lo |-> uint32] of its bit pattern, zero-extended to 64  *)
(* bits; on an ARM32 build (arm32 = TRUE) these types are 32 bits wide and *)
(* hi is zero, on the other builds they are 64 bits wide.                  *)
(* A property value is its stored bytes (character codes), its stored      *)
(* length being the length of the sequence.                                *)
(***************************************************************************)
EXTENDS Integers, Sequences, FiniteSets, TLC

VARIABLES arm32, mmu, registry, node, pc, drv, dm, tested, st, pbase, sz,
          reads, calls, ret, out, reported

vars == <<arm32, mmu, registry, node, pc, drv, dm, tested, st, pbase, sz,
          reads, calls, ret, out, reported>>

(* ------------------------------ bounds --------------------------------- *)

MaxPropLen == 5

MaxDrivers == 2

MaxPatterns == 2

MaxOverrun == 2

(* --------------------------- program constants ------------------------- *)

DT_STATUS_DISABLED == 0

DT_STATUS_OK_NSEC == 1

DT_STATUS_OK_SEC == 2

\* a physical address has 1 or 2 cells
MaxCells == 2

\* the widest window of `reg` the resolvers can touch: at most MaxCells
\* address cells followed by at most MaxCells size cells
RegWindow == MaxCells + MaxCells

(* ------------------------------ characters ----------------------------- *)

\* character codes: NUL 0, 'a' 97, 'b' 98, 'd' 100, 'e' 101, 'i' 105,
\* 'k' 107, 'l' 108, 'o' 111, 's' 115, 'y' 121
NUL == 0

\* the literal "ok", with its terminator
LitOk == <<111, 107, NUL>>

\* the literal "okay", with its terminator
LitOkay == <<111, 107, 97, 121, NUL>>

(* ------------------------- C library: strncmp -------------------------- *)

\* strncmp(s1, s2, n): compare at most n characters, stopping at the first
\* difference or at a NUL; returns <0, 0, >0.  s2 is a NUL-terminated literal.
RECURSIVE StrncmpFrom(_, _, _, _)
StrncmpFrom(s1, s2, n, i) ==
    IF i > n THEN 0
    ELSE IF s1[i] # s2[i] THEN s1[i] - s2[i]
    ELSE IF s1[i] = NUL THEN 0
    ELSE StrncmpFrom(s1, s2, n, i + 1)

Strncmp(s1, s2, n) == StrncmpFrom(s1, s2, n, 1)

(* ----------------------------- status ---------------------------------- *)

\* is_okay(st, len)
is_okay(val, len) ==
    Strncmp(val, LitOk, len) = 0 \/ Strncmp(val, LitOkay, len) = 0

\* st & flag, for the two single-bit flags
HasFlag(s, flag) == (s \div flag) % 2 = 1

\* _fdt_get_status(fdt, offs): prop is [present, val]; len = Len(val)
FdtGetStatus(n) ==
    LET st1 == IF ~n.status.present \/ is_okay(n.status.val, Len(n.status.val))
               THEN DT_STATUS_OK_NSEC ELSE 0
        st2 == IF ~n.secure.present
               THEN (IF HasFlag(st1, DT_STATUS_OK_NSEC)
                     THEN st1 + DT_STATUS_OK_SEC ELSE st1)
               ELSE (IF is_okay(n.secure.val, Len(n.secure.val))
                     THEN st1 + DT_STATUS_OK_SEC ELSE st1)
    IN  st2

(* --------------------------- fixed-width values ------------------------ *)

Zero32 == <<0, 0>>

Ones32 == <<65535, 65535>>

\* fdt32_to_cpu(*cell): the big-endian bytes of a cell as a uint32_t value
fdt32_to_cpu(cell) == <<cell[1] * 256 + cell[2], cell[3] * 256 + cell[4]>>

\* a uint32_t converted to paddr_t / ssize_t / size_t (zero extension)
Widen(w) == [hi |-> Zero32, lo |-> w]

\* (paddr_t)-1, and -1 as a ssize_t: all bits of the type set
MinusOne(is32) == [hi |-> IF is32 THEN Zero32 ELSE Ones32, lo |-> Ones32]

\* sz < 0 for a ssize_t: the top bit of the type is set
IsNegative(is32, v) ==
    IF is32 THEN v.lo[1] >= 32768 ELSE v.hi[1] >= 32768

ZeroAddr == [hi |-> Zero32, lo |-> Zero32]

(* -------------------------- address resolver --------------------------- *)

\* _fdt_read_paddr(cell, n): mem is the memory at cell, one entry per cell
FdtReadPaddr(is32, mem, n) ==
    IF n < 1 \/ n > MaxCells THEN MinusOne(is32)
    ELSE LET first == fdt32_to_cpu(mem[1])
             addr  == IF n = 2
                      THEN (IF is32
                            THEN (IF first # Zero32
                                  THEN MinusOne(is32)      \* goto bad
                                  ELSE Widen(fdt32_to_cpu(mem[2])))
                            ELSE [hi |-> first, lo |-> fdt32_to_cpu(mem[2])])
                      ELSE Widen(first)
         IN  IF addr = ZeroAddr THEN MinusOne(is32) ELSE addr

\* the cells _fdt_read_paddr dereferences
ReadPaddrCells(is32, mem, n) ==
    IF n < 1 \/ n > MaxCells THEN {}
    ELSE IF n = 2 /\ ~(is32 /\ fdt32_to_cpu(mem[1]) # Zero32) THEN {1, 2}
    ELSE {1}

\* _fdt_reg_base_address(fdt, offs)
FdtRegBaseAddress(is32, n) ==
    IF ~n.parent THEN MinusOne(is32)
    ELSE IF ~n.reg.present THEN MinusOne(is32)
    ELSE IF n.ac < 0 THEN MinusOne(is32)
    ELSE FdtReadPaddr(is32, n.reg.mem, n.ac)

\* the cells of `reg` that _fdt_reg_base_address reads
RegBaseCells(is32, n) ==
    IF ~n.parent \/ ~n.reg.present \/ n.ac < 0 THEN {}
    ELSE ReadPaddrCells(is32, n.reg.mem, n.ac)

\* _fdt_reg_size(fdt, offs)
FdtRegSize(is32, n) ==
    IF ~n.parent THEN MinusOne(is32)
    ELSE IF ~n.reg.present THEN MinusOne(is32)
    ELSE IF n.ac < 1 \/ n.ac > 2 THEN MinusOne(is32)
    ELSE IF n.sc < 1 \/ n.sc > 2 THEN MinusOne(is32)
    ELSE LET first == fdt32_to_cpu(n.reg.mem[n.ac + 1])
         IN  IF n.sc = 2
             THEN (IF first # Zero32 THEN MinusOne(is32)
                   ELSE Widen(fdt32_to_cpu(n.reg.mem[n.ac + 2])))
             ELSE Widen(first)

\* the cells of `reg` that _fdt_reg_size reads
RegSizeCells(n) ==
    IF ~n.parent \/ ~n.reg.present THEN {}
    ELSE IF n.ac < 1 \/ n.ac > 2 \/ n.sc < 1 \/ n.sc > 2 THEN {}
    ELSE IF n.sc = 2 /\ fdt32_to_cpu(n.reg.mem[n.ac + 1]) = Zero32
         THEN {n.ac + 1, n.ac + 2}
    ELSE {n.ac + 1}

\* a read at a cell index beyond the stored length of `reg`
Stray(n, cells) == \E i \in cells : i > n.reg.len

(* ------------------------------ blob content -------------------------- *)

NoProp == [present |-> FALSE, val |-> <<>>]

Prop(v) == [present |-> TRUE, val |-> v]

\* "okay" and "disabled" as stored in a blob, terminator included
PropOkay == Prop(LitOkay)

PropDisabled == Prop(<<100, 105, 115, 97, 98, 108, 101, 100, NUL>>)

W_0 == <<0, 0, 0, 0>>

W_1000 == <<0, 0, 16, 0>>

W_10000000 == <<16, 0, 0, 0>>

W_80000000 == <<128, 0, 0, 0>>

W_FFFFFFFF == <<255, 255, 255, 255>>

NoReg == [present |-> FALSE, mem |-> <<W_0, W_0, W_0, W_0>>, len |-> 0]

\* a `reg` property: mem is the memory at the property's data pointer, of
\* which only the first len cells belong to the property
Reg(m, l) == [present |-> TRUE, mem |-> m, len |-> l]

NoCompat == [present |-> FALSE, list |-> {}]

\* what fdt_address_cells / fdt_size_cells can answer: a count, or a
\* negative error (-FDT_ERR_BADNCELLS)
CellCounts == {-14, 1, 2, 3}

\* a node as the blob query service answers for it
Node(c, s, ss, p, a, z, r) ==
    [compat |-> c, status |-> s, secure |-> ss, parent |-> p,
     ac |-> a, sc |-> z, reg |-> r]

(* ------------------------------ input domains -------------------------- *)

PropAlphabet == {NUL, 97, 100, 107, 111, 121}

AllProps ==
    {NoProp} \cup
    {Prop(v) : v \in UNION {[1..k -> PropAlphabet] : k \in 0..MaxPropLen}}

SampleProps == {NoProp, PropOkay, PropDisabled}

StatusNodes ==
    {Node(NoCompat, p[1], p[2], TRUE, 1, 1, NoReg) :
        p \in (AllProps \X SampleProps) \cup (SampleProps \X AllProps)}

RegWords == {W_0, W_10000000, W_FFFFFFFF}

RegNodes ==
    {Node(NoCompat, NoProp, NoProp, x[1], x[2], x[3], x[4]) :
        x \in BOOLEAN \X CellCounts \X CellCounts \X
              ({NoReg} \cup {Reg(m, l) : m \in [1..RegWindow -> RegWords],
                                         l \in 0..RegWindow})}

RegSamples ==
    { <<W_0, W_10000000, W_0, W_1000>>,
      <<W_10000000, W_1000, W_10000000, W_1000>>,
      <<W_10000000, W_80000000, W_0, W_0>>,
      <<W_0, W_FFFFFFFF, W_0, W_80000000>> }

MapNodes ==
    {Node(NoCompat, x[1], x[2], x[3], x[4], x[5], x[6]) :
        x \in SampleProps \X SampleProps \X BOOLEAN \X CellCounts \X CellCounts \X
              ({NoReg} \cup {Reg(m, l) : m \in RegSamples, l \in 0..RegWindow})}

\* the nodes a driver goes on to after a first probe: the well-formed window
\* of the first sample, under every status and with or without a parent
ProbeNodes ==
    {n \in MapNodes :
        /\ n.reg.present /\ n.reg.len = RegWindow
        /\ n.reg.mem = <<W_0, W_10000000, W_0, W_1000>>
        /\ n.ac = 2 /\ n.sc = 2}

Patterns == {"vendor,a", "vendor,b"}

\* a match table: null, or its patterns in order (the terminating entry is
\* not part of pats)
NoTable == [null |-> TRUE, pats |-> <<>>]

Table(ps) == [null |-> FALSE, pats |-> ps]

Tables ==
    {NoTable} \cup
    {Table(ps) : ps \in UNION {[1..k -> Patterns] : k \in 0..MaxPatterns}}

Registries == UNION {[1..k -> Tables] : k \in 0..MaxDrivers}

FindNodes ==
    {Node(c, NoProp, NoProp, TRUE, 1, 1, NoReg) :
        c \in {NoCompat} \cup {[present |-> TRUE, list |-> l] : l \in SUBSET Patterns}}

(* ------------------------------ initial states ------------------------- *)

NoOut == [written |-> FALSE, base |-> [pa |-> ZeroAddr, mtype |-> "none"],
          size |-> ZeroAddr]

NoReports == [disabled |-> {}, error |-> {}]

Locals ==
    /\ drv = 1
    /\ dm = 0
    /\ tested = {}
    /\ st = 0
    /\ pbase = ZeroAddr
    /\ sz = ZeroAddr
    /\ reads = {}
    /\ calls = <<>>
    /\ ret = 0
    /\ out = NoOut
    /\ reported = NoReports

\* a driver probe about to call dt_map_dev
Init ==
    /\ arm32 \in BOOLEAN
    /\ mmu \in BOOLEAN
    /\ registry = <<>>
    /\ node \in MapNodes
    /\ pc = "idle"
    /\ Locals

\* a call of _fdt_get_status
InitStatus ==
    /\ arm32 = FALSE
    /\ mmu = TRUE
    /\ registry = <<>>
    /\ node \in StatusNodes
    /\ pc = "resolve"
    /\ Locals

\* a call of _fdt_reg_base_address or _fdt_reg_size
InitReg ==
    /\ arm32 \in BOOLEAN
    /\ mmu = TRUE
    /\ registry = <<>>
    /\ node \in RegNodes
    /\ pc = "resolve"
    /\ Locals

\* a call of dt_find_compatible_driver
InitFind ==
    /\ arm32 = FALSE
    /\ mmu = TRUE
    /\ registry \in Registries
    /\ node \in FindNodes
    /\ pc = "outer"
    /\ Locals

(* ------------------------- blob query / mapper ------------------------- *)

\* fdt_node_check_compatible(fdt, offs, compatible): 0 when the node's
\* `compatible` list holds the pattern, 1 when it does not, a negative
\* error when the node has no `compatible` property
CheckCompatible(n, pattern) ==
    IF ~n.compat.present THEN -1
    ELSE IF pattern \in n.compat.list THEN 0 ELSE 1

\* phys_to_virt(pa, mtype) of a mapped address; NoVa is the null pointer
Va(pa, mtype) == [pa |-> pa, mtype |-> mtype]

NoVa == [pa |-> ZeroAddr, mtype |-> "none"]

(* ----------------------- dt_find_compatible_driver --------------------- *)

findVars == <<drv, dm, tested, ret, pc>>

notFindVars == <<arm32, mmu, registry, node, st, pbase, sz, reads, calls,
                 out, reported>>

\* for_each_dt_driver(drv): the registry is exhausted, return NULL
FindReturnNull ==
    /\ pc = "outer"
    /\ drv > Len(registry)
    /\ ret' = 0
    /\ pc' = "done"
    /\ UNCHANGED <<drv, dm, tested>>
    /\ UNCHANGED notFindVars

\* dm = drv->match_table
FindEnterDriver ==
    /\ pc = "outer"
    /\ drv <= Len(registry)
    /\ dm' = IF registry[drv].null THEN 0 ELSE 1
    /\ pc' = "inner"
    /\ UNCHANGED <<drv, tested, ret>>
    /\ UNCHANGED notFindVars

\* the inner loop's condition `dm` is false: next driver
FindNextDriver ==
    /\ pc = "inner"
    /\ dm = 0
    /\ drv' = drv + 1
    /\ pc' = "outer"
    /\ UNCHANGED <<dm, tested, ret>>
    /\ UNCHANGED notFindVars

\* the loop body on an entry of the driver's pattern list
FindTest ==
    /\ pc = "inner"
    /\ dm >= 1
    /\ dm <= Len(registry[drv].pats)
    /\ tested' = tested \cup {<<drv, dm>>}
    /\ IF CheckCompatible(node, registry[drv].pats[dm]) = 0
       THEN ret' = drv /\ pc' = "done" /\ dm' = dm
       ELSE dm' = dm + 1 /\ UNCHANGED <<ret, pc>>
    /\ UNCHANGED drv
    /\ UNCHANGED notFindVars

\* the loop body on an entry past the pattern list (dm++ never makes dm
\* null): the terminating entry, whose pattern is a null pointer, and the
\* memory that follows the table.  The test of such an entry may fault, may
\* report no match, or (for a node that has a `compatible` property) may
\* report a match.
FindTestPastEnd ==
    /\ pc = "inner"
    /\ dm >= 1
    /\ dm > Len(registry[drv].pats)
    /\ tested' = tested \cup {<<drv, dm>>}
    /\ \E outcome \in {"fault", "match", "nomatch"} :
          \/ /\ outcome = "fault"
             /\ pc' = "fault"
             /\ UNCHANGED <<dm, ret>>
          \/ /\ outcome = "match"
             /\ node.compat.present
             /\ ret' = drv
             /\ pc' = "done"
             /\ UNCHANGED dm
          \/ /\ outcome = "nomatch"
             /\ dm < Len(registry[drv].pats) + MaxOverrun
             /\ dm' = dm + 1
             /\ UNCHANGED <<ret, pc>>
    /\ UNCHANGED drv
    /\ UNCHANGED notFindVars

NextFind ==
    \/ FindReturnNull
    \/ FindEnterDriver
    \/ FindNextDriver
    \/ FindTest
    \/ FindTestPastEnd

SpecFind == InitFind /\ [][NextFind]_vars

(* ------------------- direct calls of the resolvers --------------------- *)

\* _fdt_get_status(fdt, offs)
GetStatus ==
    /\ pc = "resolve"
    /\ st' = FdtGetStatus(node)
    /\ pc' = "done"
    /\ UNCHANGED <<arm32, mmu, registry, node, drv, dm, tested, pbase, sz,
                   reads, calls, ret, out, reported>>

NextStatus == GetStatus

SpecStatus == InitStatus /\ [][NextStatus]_vars

\* _fdt_reg_base_address(fdt, offs)
RegBaseAddress ==
    /\ pc = "resolve"
    /\ pbase' = FdtRegBaseAddress(arm32, node)
    /\ reads' = reads \cup RegBaseCells(arm32, node)
    /\ pc' = "base_done"
    /\ UNCHANGED <<arm32, mmu, registry, node, drv, dm, tested, st, sz,
                   calls, ret, out, reported>>

\* _fdt_reg_size(fdt, offs)
RegSize ==
    /\ pc = "resolve"
    /\ sz' = FdtRegSize(arm32, node)
    /\ reads' = reads \cup RegSizeCells(node)
    /\ pc' = "size_done"
    /\ UNCHANGED <<arm32, mmu, registry, node, drv, dm, tested, st, pbase,
                   calls, ret, out, reported>>

\* a dereference of a cell beyond the stored length of `reg` may fault
\* instead of yielding the memory found there
StrayReadFault ==
    /\ \/ pc \in {"resolve", "reg_base"} /\ Stray(node, RegBaseCells(arm32, node))
       \/ pc \in {"resolve", "reg_size"} /\ Stray(node, RegSizeCells(node))
    /\ pc' = "fault"
    /\ reads' = reads \cup
                (IF pc = "reg_size" THEN RegSizeCells(node)
                 ELSE IF pc = "reg_base" THEN RegBaseCells(arm32, node)
                 ELSE RegBaseCells(arm32, node) \cup RegSizeCells(node))
    /\ UNCHANGED <<arm32, mmu, registry, node, drv, dm, tested, st, pbase, sz,
                   calls, ret, out, reported>>

NextReg ==
    \/ RegBaseAddress
    \/ RegSize
    \/ StrayReadFault

SpecReg == InitReg /\ [][NextReg]_vars

(* ------------------------------ dt_map_dev ----------------------------- *)

\* mutant of StatusDisabled: the early return for a disabled node is lost
StatusDisabledNever(s) == FALSE

\* st == DT_STATUS_DISABLED
StatusDisabled(s) == s = DT_STATUS_DISABLED

\* mutant of BaseFailed: the result of base resolution is not tested
BaseFailedNever(is32, pb) == FALSE

\* pbase == (paddr_t)-1
BaseFailed(is32, pb) == pb = MinusOne(is32)

\* sz < 0
SizeFailed(is32, v) == IsNegative(is32, v)

\* mutant of MemType: secure whenever the secure flag is set
MemTypeSecureFirst(s) ==
    IF HasFlag(s, DT_STATUS_OK_SEC) THEN "MEM_AREA_IO_SEC" ELSE "MEM_AREA_IO_NSEC"

\* the memory type of the mapping request
MemType(s) ==
    IF HasFlag(s, DT_STATUS_OK_SEC) /\ ~HasFlag(s, DT_STATUS_OK_NSEC)
    THEN "MEM_AREA_IO_SEC"
    ELSE "MEM_AREA_IO_NSEC"

\* one step of dt_map_dev, as recorded in calls
Step(op, ok) ==
    [op |-> op, ok |-> ok, mtype |-> "none", pa |-> ZeroAddr, len |-> ZeroAddr]

\* one request to the memory mapper, as recorded in calls
Request(op, ok, mtype, pa, len) ==
    [op |-> op, ok |-> ok, mtype |-> mtype, pa |-> pa, len |-> len]

\* return rc; kind is what the call ended on
Return(rc, kind) ==
    /\ ret' = rc
    /\ pc' = "done"
    /\ reported' = IF kind \in {"disabled", "error"}
                   THEN [reported EXCEPT ![kind] = @ \cup {rc}]
                   ELSE reported

\* assert(cpu_mmu_enabled()), in a build that keeps assertions: a call made
\* before the MMU is enabled panics
DtMapDevAssert ==
    /\ pc = "idle"
    /\ pc' = IF mmu THEN "get_status" ELSE "panic"
    /\ UNCHANGED <<arm32, mmu, registry, node, drv, dm, tested, st, pbase, sz,
                   reads, calls, ret, out, reported>>

\* st = _fdt_get_status(fdt, offs); if (st == DT_STATUS_DISABLED) return -1;
DtMapDevStatus ==
    /\ pc = "get_status"
    /\ st' = FdtGetStatus(node)
    /\ calls' = Append(calls, Step("status", ~StatusDisabled(st')))
    /\ IF StatusDisabled(st')
       THEN Return(-1, "disabled")
       ELSE pc' = "reg_base" /\ UNCHANGED <<ret, reported>>
    /\ UNCHANGED <<arm32, mmu, registry, node, drv, dm, tested, pbase, sz,
                   reads, out>>

\* pbase = _fdt_reg_base_address(fdt, offs); if (pbase == (paddr_t)-1) return -1;
DtMapDevBase ==
    /\ pc = "reg_base"
    /\ pbase' = FdtRegBaseAddress(arm32, node)
    /\ reads' = reads \cup RegBaseCells(arm32, node)
    /\ calls' = Append(calls, Step("reg_base", ~BaseFailed(arm32, pbase')))
    /\ IF BaseFailed(arm32, pbase')
       THEN Return(-1, "error")
       ELSE pc' = "reg_size" /\ UNCHANGED <<ret, reported>>
    /\ UNCHANGED <<arm32, mmu, registry, node, drv, dm, tested, st, sz, out>>

\* sz = _fdt_reg_size(fdt, offs); if (sz < 0) return -1;
DtMapDevSize ==
    /\ pc = "reg_size"
    /\ sz' = FdtRegSize(arm32, node)
    /\ reads' = reads \cup RegSizeCells(node)
    /\ calls' = Append(calls, Step("reg_size", ~SizeFailed(arm32, sz')))
    /\ IF SizeFailed(arm32, sz')
       THEN Return(-1, "error")
       ELSE pc' = "add_mapping" /\ UNCHANGED <<ret, reported>>
    /\ UNCHANGED <<arm32, mmu, registry, node, drv, dm, tested, st, pbase, out>>

\* if (!core_mmu_add_mapping(mtype, pbase, sz)) return -1;
\* the mapper establishes (or reuses) the mapping, or fails
DtMapDevAddMapping ==
    /\ pc = "add_mapping"
    /\ \E ok \in BOOLEAN :
          /\ calls' = Append(calls,
                 Request("core_mmu_add_mapping", ok, MemType(st), pbase, sz))
          /\ IF ok
             THEN pc' = "phys_to_virt" /\ UNCHANGED <<ret, reported>>
             ELSE Return(-1, "error")
    /\ UNCHANGED <<arm32, mmu, registry, node, drv, dm, tested, st, pbase, sz,
                   reads, out>>

\* vbase = phys_to_virt(pbase, mtype); if (!vbase) return -1;
\* *base = vbase; *size = sz; return 0;
DtMapDevTranslate ==
    /\ pc = "phys_to_virt"
    /\ \E vbase \in {NoVa, Va(pbase, MemType(st))} :
          /\ calls' = Append(calls,
                 Request("phys_to_virt", vbase # NoVa, MemType(st), pbase, ZeroAddr))
          /\ IF vbase = NoVa
             THEN Return(-1, "error") /\ UNCHANGED out
             ELSE /\ out' = [written |-> TRUE, base |-> vbase, size |-> sz]
                  /\ Return(0, "ok")
    /\ UNCHANGED <<arm32, mmu, registry, node, drv, dm, tested, st, pbase, sz,
                   reads>>

\* the probing driver goes on to another node with fresh locals; what the
\* earlier calls reported stays known to it
ProbeNext ==
    /\ pc = "done"
    /\ node' \in ProbeNodes
    /\ pc' = "idle"
    /\ st' = 0
    /\ pbase' = ZeroAddr
    /\ sz' = ZeroAddr
    /\ reads' = {}
    /\ calls' = <<>>
    /\ ret' = 0
    /\ out' = NoOut
    /\ UNCHANGED <<arm32, mmu, registry, drv, dm, tested, reported>>

Next ==
    \/ DtMapDevAssert
    \/ DtMapDevStatus
    \/ DtMapDevBase
    \/ DtMapDevSize
    \/ DtMapDevAddMapping
    \/ DtMapDevTranslate
    \/ StrayReadFault
    \/ ProbeNext

Spec == Init /\ [][Next]_vars

(***************************************************************************)
(*                              PROPERTIES                                 *)
(***************************************************************************)

(* ------------------------- what the claims speak of -------------------- *)

\* the descriptor a scan in registration order over each descriptor's own
\* pattern list selects: the smallest index with a matching pattern, 0 if none
Matches(i) ==
    \E j \in 1..Len(registry[i].pats) :
        CheckCompatible(node, registry[i].pats[j]) = 0

FirstMatch ==
    IF \E i \in 1..Len(registry) : Matches(i)
    THEN CHOOSE i \in 1..Len(registry) :
            Matches(i) /\ \A k \in 1..(i - 1) : ~Matches(k)
    ELSE 0

\* the text of a stored value: its bytes up to the first NUL or its end
RECURSIVE TextLen(_, _)
TextLen(v, i) ==
    IF i > Len(v) \/ v[i] = NUL THEN i - 1 ELSE TextLen(v, i + 1)

Text(v) == SubSeq(v, 1, TextLen(v, 1))

IsOkText(v) == Text(v) \in {<<111, 107>>, <<111, 107, 97, 121>>}

NsecOk == HasFlag(st, DT_STATUS_OK_NSEC)

SecOk == HasFlag(st, DT_STATUS_OK_SEC)

MapperOps == {"core_mmu_add_mapping", "phys_to_virt"}

StepOrder ==
    <<"status", "reg_base", "reg_size", "core_mmu_add_mapping", "phys_to_virt">>

Called(op) == \E i \in 1..Len(calls) : calls[i].op = op

CellsInRange == node.ac \in 1..2 /\ node.sc \in 1..2

(* ------------------------------- C1 ------------------------------------ *)

\* C1: dt_find_compatible_driver returns the descriptor with the smallest
\* registration index among those whose own pattern list holds a pattern
\* the node is compatible with (a later descriptor when the earlier ones do
\* not match, the first-registered one of two that share a matching pattern).
C1_FirstRegisteredMatch ==
    pc = "done" => ret = FirstMatch

(* ------------------------------- C2 ------------------------------------ *)

\* C2: for a node compatible with no pattern of any descriptor, the scan
\* tests only entries of the pattern list of the descriptor being scanned,
\* does not fault, and returns not_found.
C2_NoMatchScanStaysInLists ==
    (FirstMatch = 0) =>
        /\ \A t \in tested : t[2] <= Len(registry[t[1]].pats)
        /\ pc # "fault"
        /\ (pc = "done" => ret = 0)

(* ------------------------------- C3 ------------------------------------ *)

\* C3: every request dt_map_dev makes to the memory mapper (the mapping
\* request and the translation query) carries the class secure-only I/O iff
\* the resolved status has secure_ok set and nonsecure_ok clear, and
\* non-secure I/O otherwise; for a status with neither flag set no request
\* is made.
C3_ClassFollowsStatus ==
    \A i \in 1..Len(calls) :
        calls[i].op \in MapperOps =>
            /\ st = FdtGetStatus(node)
            /\ st # DT_STATUS_DISABLED
            /\ calls[i].mtype \in {"MEM_AREA_IO_SEC", "MEM_AREA_IO_NSEC"}
            /\ (calls[i].mtype = "MEM_AREA_IO_SEC") <=> (SecOk /\ ~NsecOk)

\* a finished call that asked for a secure-only mapping and its translation
C3_Witness ==
    /\ pc = "done"
    /\ ret = 0
    /\ SecOk /\ ~NsecOk
    /\ Called("core_mmu_add_mapping") /\ Called("phys_to_virt")

(* ------------------------------- C4 ------------------------------------ *)

\* C4: the steps of dt_map_dev run in the order status, base, size,
\* ensure-mapping, translation, each only if the earlier ones succeeded:
\* no mapping request for a disabled node or a failed base or size, no
\* translation query unless the mapping request succeeded, and failure is
\* returned in each such case.
C4_StepsShortCircuit ==
    /\ Len(calls) <= Len(StepOrder)
    /\ \A i \in 1..Len(calls) : calls[i].op = StepOrder[i]
    /\ Called("core_mmu_add_mapping") =>
          /\ FdtGetStatus(node) # DT_STATUS_DISABLED
          /\ pbase = FdtRegBaseAddress(arm32, node)
          /\ pbase # MinusOne(arm32)
          /\ sz = FdtRegSize(arm32, node)
          /\ ~IsNegative(arm32, sz)
    /\ Called("phys_to_virt") => calls[4].ok
    /\ (pc = "done" /\ ~(Len(calls) = 5 /\ calls[5].ok)) => (ret = -1 /\ ~out.written)

\* a call that resolved status and base, failed on the size and stopped
C4_Witness ==
    /\ pc = "done"
    /\ ret = -1
    /\ Len(calls) = 3
    /\ calls[2].ok
    /\ IsNegative(arm32, sz)

(* ------------------------------- C5 ------------------------------------ *)

\* C5 (as stated): the result dt_map_dev returns for a disabled node differs
\* from the result it returns for every error case.
C5_DisabledDistinctFromError ==
    reported.disabled \cap reported.error = {}

\* C5 (amended): dt_map_dev returns the same result, -1, for a disabled node
\* and for every error; a disabled node differs only in that the call stops
\* after status resolution: no cell of `reg` is read, no request goes to the
\* memory mapper and nothing is written to the outputs.
C5_DisabledReturnsFailureEarly ==
    /\ reported.disabled \subseteq {-1}
    /\ reported.error \subseteq {-1}
    /\ (pc \notin {"idle", "get_status", "panic"}
        /\ FdtGetStatus(node) = DT_STATUS_DISABLED) =>
          /\ pc = "done"
          /\ ret = -1
          /\ Len(calls) = 1
          /\ reads = {}
          /\ ~out.written

\* a driver that has seen a disabled node and an error, both reported as -1
C5_Witness ==
    /\ pc = "done"
    /\ FdtGetStatus(node) = DT_STATUS_DISABLED
    /\ reported.disabled = {-1}
    /\ reported.error = {-1}

(* ------------------------------- C6 ------------------------------------ *)

\* C6: _fdt_get_status sets nonsecure_ok iff `status` is absent or its
\* stored value is exactly "ok" or "okay"; every other stored value (the
\* empty value and strict leading parts of the literals included) clears it.
C6_NonsecureOkIffAbsentOrOk ==
    pc = "done" =>
        (NsecOk <=> (~node.status.present \/ IsOkText(node.status.val)))

(* ------------------------------- C7 ------------------------------------ *)

\* C7: with `secure-status` absent secure_ok equals the resolved
\* nonsecure_ok; with `secure-status` present secure_ok is set iff that
\* value is "ok" or "okay", whatever `status` holds.
C7_SecureOkInheritsOrOwn ==
    pc = "done" =>
        IF ~node.secure.present
        THEN SecOk <=> NsecOk
        ELSE SecOk <=> IsOkText(node.secure.val)

(* ------------------------------- C8 ------------------------------------ *)

\* C8: on a 32-bit-address build, for a node with a parent and a `reg`
\* holding the address cells: 2 cells with a nonzero high word fail; 1 cell,
\* or 2 cells with a zero high word, succeed with the low word as the base
\* for every nonzero low word; a zero base fails; the caller tells success
\* from failure (by comparing with (paddr_t)-1).
C8_Base32Decodes ==
    (/\ pc = "base_done"
     /\ arm32
     /\ node.parent
     /\ node.reg.present
     /\ node.ac \in 1..2
     /\ node.reg.len >= node.ac) =>
        LET high == fdt32_to_cpu(node.reg.mem[1])
            low  == fdt32_to_cpu(node.reg.mem[node.ac])
            failed == pbase = MinusOne(arm32)
        IN  IF node.ac = 2 /\ high # Zero32 THEN failed
            ELSE IF low = Zero32 THEN failed
            ELSE ~failed /\ pbase = Widen(low)

(* ------------------------------- C9 ------------------------------------ *)

\* the base the cells of `reg` encode, when the build can represent it
EncodedBase ==
    IF node.ac = 1 THEN Widen(fdt32_to_cpu(node.reg.mem[1]))
    ELSE [hi |-> fdt32_to_cpu(node.reg.mem[1]),
          lo |-> fdt32_to_cpu(node.reg.mem[2])]

EncodedSize == fdt32_to_cpu(node.reg.mem[node.ac + node.sc])

C9_Resolvable ==
    /\ FdtGetStatus(node) # DT_STATUS_DISABLED
    /\ node.parent
    /\ CellsInRange
    /\ node.reg.present
    /\ node.reg.len >= node.ac + node.sc
    /\ EncodedBase # ZeroAddr
    /\ EncodedBase # MinusOne(arm32)
    /\ (arm32 => EncodedBase.hi = Zero32)
    /\ (node.sc = 2 => fdt32_to_cpu(node.reg.mem[node.ac + 1]) = Zero32)

\* C9: for a node that is not disabled, with cell counts in {1,2}, a `reg`
\* whose base is nonzero and representable and whose size has a zero high
\* word, and a memory mapper that does not fail, dt_map_dev succeeds with
\* size = the 32-bit size word (every value, 2^31 and above included, on
\* 32-bit and 64-bit builds) and base = the translation of the decoded base.
C9_ResolvableNodeMaps ==
    (/\ pc = "done"
     /\ C9_Resolvable
     /\ \A i \in 1..Len(calls) : calls[i].op \in MapperOps => calls[i].ok) =>
        /\ ret = 0
        /\ out.written
        /\ out.size = Widen(EncodedSize)
        /\ out.base = Va(EncodedBase, MemType(FdtGetStatus(node)))

(* ------------------------------- C10 ----------------------------------- *)

\* C10: for a node whose `reg` holds fewer than address_cells + size_cells
\* cells, no cell at or beyond the stored length is read, resolution fails
\* and dt_map_dev makes no mapping request.
C10_ShortRegNotRead ==
    (/\ node.parent
     /\ CellsInRange
     /\ node.reg.present
     /\ node.reg.len < node.ac + node.sc) =>
        /\ \A i \in reads : i <= node.reg.len
        /\ pc # "fault"
        /\ ~Called("core_mmu_add_mapping")
        /\ (pc = "done" => ret = -1)

====
